---- MODULE Spec2Model ----
(***************************************************************************)
(* Model of UI_page/backend_api.py: the date mapping function              *)
(* get_sample_date_range, the module-level model load, and the Flask       *)
(* handler predict() behind POST /api/predict.                             *)
(***************************************************************************)
EXTENDS Integers, Sequences, FiniteSets, TLC

VARIABLES
    SEQ_LEN,      \* module global, backend_api.py:11
    HORIZONS,     \* module global, backend_api.py:12
    call,         \* frame of the latest get_sample_date_range call made directly
    model,        \* module global `model`, backend_api.py:71/80
    pc,           \* per request: position of predict() in its body
    body,         \* per request: what request.json holds
    resp,         \* per request: the (body, status) the handler returned
    predictCalls, \* per request: number of model.predict invocations (line 107)
    inferOutcome, \* per request: what the try block of lines 106-111 did
    arrivedAfterFailure \* per request: an inference had already failed on arrival

vars == <<SEQ_LEN, HORIZONS, call, model, pc, body, resp, predictCalls,
          inferOutcome, arrivedAfterFailure>>

serverVars == <<model, pc, body, resp, predictCalls, inferOutcome, arrivedAfterFailure>>

(***************************************************************************)
(* Bounds of the model                                                     *)
(***************************************************************************)
MaxIndex == 18
MaxSeqLen == 6
MaxHorizons == 3
NumRequests == 2

(***************************************************************************)
(* Program constants                                                       *)
(***************************************************************************)
FIXED_SAMPLE_INDEX == 17

START_DATE ==
    [year |-> 2015, month |-> 1, day |-> 1, hour |-> 0, minute |-> 0, second |-> 0]

\* Base timestamps get_sample_date_range is exercised with: the program's
\* own START_DATE, a year end, and the end of February in a leap year.
BaseDates ==
    { START_DATE,
      [year |-> 2015, month |-> 12, day |-> 31, hour |-> 20, minute |-> 30, second |-> 5],
      [year |-> 2016, month |-> 2, day |-> 28, hour |-> 9, minute |-> 0, second |-> 0] }

(***************************************************************************)
(* datetime: the proleptic Gregorian calendar of Python's datetime         *)
(***************************************************************************)
IsLeap(y) == (y % 4 = 0) /\ ((y % 100 # 0) \/ (y % 400 = 0))

DaysInMonth(y, m) ==
    IF m = 2 THEN (IF IsLeap(y) THEN 29 ELSE 28)
    ELSE IF m \in {4, 6, 9, 11} THEN 30 ELSE 31

\* the calendar day after d
NextDay(d) ==
    IF d.day < DaysInMonth(d.year, d.month)
    THEN [d EXCEPT !.day = d.day + 1]
    ELSE IF d.month < 12
         THEN [d EXCEPT !.month = d.month + 1, !.day = 1]
         ELSE [d EXCEPT !.year = d.year + 1, !.month = 1, !.day = 1]

RECURSIVE AddDays(_, _)
AddDays(d, n) == IF n = 0 THEN d ELSE AddDays(NextDay(d), n - 1)

\* start_date + timedelta(hours=h), h >= 0: the time of day wraps at 24 and
\* the carry moves the date; minutes and seconds are untouched.
AddHours(d, h) ==
    LET total == d.hour + h
    IN  AddDays([d EXCEPT !.hour = total % 24], total \div 24)

(***************************************************************************)
(* strftime                                                                *)
(***************************************************************************)
Pad2(n) == IF n < 10 THEN "0" \o ToString(n) ELSE ToString(n)

Pad4(n) ==
    IF n < 10 THEN "000" \o ToString(n)
    ELSE IF n < 100 THEN "00" \o ToString(n)
    ELSE IF n < 1000 THEN "0" \o ToString(n)
    ELSE ToString(n)

\* strftime('%H:%M:%S')
StrfHMS(d) == Pad2(d.hour) \o ":" \o Pad2(d.minute) \o ":" \o Pad2(d.second)

\* strftime('%Y-%m-%d')
StrfYmd(d) == Pad4(d.year) \o "-" \o Pad2(d.month) \o "-" \o Pad2(d.day)

\* strftime('%Y-%m-%d %H:%M:%S')
StrfYmdHMS(d) == StrfYmd(d) \o " " \o StrfHMS(d)

(***************************************************************************)
(* get_sample_date_range (backend_api.py:38-66)                            *)
(***************************************************************************)
input_start_hour_offset(sample_index) == sample_index

\* variant: the input window's end taken one hour too far
input_end_hour_offset_inclusive(sample_index) == sample_index + SEQ_LEN

input_end_hour_offset(sample_index) == sample_index + SEQ_LEN - 1

\* variant: the prediction window starting on the input window's last hour
pred_start_hour_offset_overlapping(sample_index) == sample_index + SEQ_LEN - 1

pred_start_hour_offset(sample_index) == sample_index + SEQ_LEN

pred_end_hour_offset(sample_index) == pred_start_hour_offset(sample_index) + HORIZONS - 1

input_start_time(sample_index, start_date) ==
    AddHours(start_date, input_start_hour_offset(sample_index))

input_end_time(sample_index, start_date) ==
    AddHours(start_date, input_end_hour_offset(sample_index))

pred_start_time(sample_index, start_date) ==
    AddHours(start_date, pred_start_hour_offset(sample_index))

pred_end_time(sample_index, start_date) ==
    AddHours(start_date, pred_end_hour_offset(sample_index))

get_sample_date_range(sample_index, start_date) ==
    [ inputStart      |-> StrfHMS(input_start_time(sample_index, start_date)),
      inputEnd        |-> StrfHMS(input_end_time(sample_index, start_date)),
      predStart       |-> StrfHMS(pred_start_time(sample_index, start_date)),
      predEnd         |-> StrfHMS(pred_end_time(sample_index, start_date)),
      date            |-> StrfYmd(input_start_time(sample_index, start_date)),
      full_start_date |-> StrfYmdHMS(input_start_time(sample_index, start_date)) ]

(***************************************************************************)
(* Direct calls of get_sample_date_range: the frame of the call            *)
(***************************************************************************)
NoCall == [called |-> FALSE]

Frame(sample_index, start_date) ==
    [ called                  |-> TRUE,
      sample_index            |-> sample_index,
      start_date              |-> start_date,
      input_start_hour_offset |-> input_start_hour_offset(sample_index),
      input_end_hour_offset   |-> input_end_hour_offset(sample_index),
      pred_start_hour_offset  |-> pred_start_hour_offset(sample_index),
      pred_end_hour_offset    |-> pred_end_hour_offset(sample_index),
      input_start_time        |-> input_start_time(sample_index, start_date),
      input_end_time          |-> input_end_time(sample_index, start_date),
      pred_start_time         |-> pred_start_time(sample_index, start_date),
      pred_end_time           |-> pred_end_time(sample_index, start_date),
      result                  |-> get_sample_date_range(sample_index, start_date) ]

CallDateRange ==
    \E sample_index \in 0..MaxIndex, start_date \in BaseDates :
        /\ call' = Frame(sample_index, start_date)
        /\ UNCHANGED <<SEQ_LEN, HORIZONS>>
        /\ UNCHANGED serverVars

(***************************************************************************)
(* The server: module-level model load and predict()                       *)
(***************************************************************************)
Requests == 1..NumRequests

ModelNone == "None"
ModelLoaded == "keras_model"

\* What a bounding-box field of the JSON object can hold.
FieldKinds == {"absent", "non_numeric", "number"}

\* latMax and lonMax, which predict() never reads: missing or a number
UnreadFieldKinds == {"absent", "number"}

\* What request.json can be: no JSON body at all (the property raises), a
\* JSON value that is no object (data.get raises), or an object.
Bodies ==
    { [json |-> "absent"], [json |-> "not_object"] }
    \cup [ json : {"object"}, latMin : FieldKinds, lonMin : FieldKinds,
           latMax : UnreadFieldKinds, lonMax : UnreadFieldKinds ]

NoBody == [json |-> "none"]

\* variant: a missing field defaulted to a number, float(data.get(k, 0))
FloatOf_defaulted(kind) ==
    CASE kind = "absent"      -> "ok"
      [] kind = "non_numeric" -> "ValueError"
      [] kind = "number"      -> "ok"

\* float(data.get(k)): None raises TypeError, a non-numeric string ValueError
FloatOf(kind) ==
    CASE kind = "absent"      -> "TypeError"
      [] kind = "non_numeric" -> "ValueError"
      [] kind = "number"      -> "ok"

\* The exception the try block of lines 91-96 raises on body b, or "ok"
ParseError(b) ==
    IF b.json = "absent" THEN "BadRequest"
    ELSE IF b.json = "not_object" THEN "AttributeError"
    ELSE IF FloatOf(b.latMin) # "ok" THEN FloatOf(b.latMin)
    ELSE FloatOf(b.lonMin)

NoResponse == [status |-> 0, body |-> [pending |-> TRUE]]

UnavailableResponse ==
    [status |-> 500, body |-> [error |-> "Model failed to load on server startup."]]

\* variant: the except clause of line 98 returning without the 400 status
InvalidInputResponse_default_status(e) ==
    [status |-> 200, body |-> [error |-> "Invalid input coordinates: " \o e]]

InvalidInputResponse(e) ==
    [status |-> 400, body |-> [error |-> "Invalid input coordinates: " \o e]]

InferenceFailedResponse(e) ==
    [status |-> 500, body |-> [error |-> "Model inference failed: " \o e]]

SuccessResponse(time_details) ==
    [status |-> 200,
     body |-> [prediction_results |-> "prediction_list", time_details |-> time_details]]

Return(r, response) ==
    /\ resp' = [resp EXCEPT ![r] = response]
    /\ pc' = [pc EXCEPT ![r] = "done"]

\* variant: predict() without the test of lines 88-89
CheckModel_unguarded(r) ==
    /\ pc[r] = "idle"
    /\ \E b \in Bodies : body' = [body EXCEPT ![r] = b]
    /\ arrivedAfterFailure' =
           [arrivedAfterFailure EXCEPT ![r] = \E q \in Requests : inferOutcome[q] = "raised"]
    /\ pc' = [pc EXCEPT ![r] = "parse"]
    /\ UNCHANGED resp
    /\ UNCHANGED <<model, predictCalls, inferOutcome>>
    /\ UNCHANGED <<SEQ_LEN, HORIZONS, call>>

\* Flask dispatches a POST /api/predict to predict(), whose first statement
\* (lines 88-89) tests the global `model`; request.json is not touched yet.
CheckModel(r) ==
    /\ pc[r] = "idle"
    /\ \E b \in Bodies : body' = [body EXCEPT ![r] = b]
    /\ arrivedAfterFailure' =
           [arrivedAfterFailure EXCEPT ![r] = \E q \in Requests : inferOutcome[q] = "raised"]
    /\ IF model = ModelNone
       THEN Return(r, UnavailableResponse)
       ELSE /\ pc' = [pc EXCEPT ![r] = "parse"]
            /\ UNCHANGED resp
    /\ UNCHANGED <<model, predictCalls, inferOutcome>>
    /\ UNCHANGED <<SEQ_LEN, HORIZONS, call>>

\* lines 91-98
ParseBounds(r) ==
    /\ pc[r] = "parse"
    /\ IF ParseError(body[r]) # "ok"
       THEN Return(r, InvalidInputResponse(ParseError(body[r])))
       ELSE /\ pc' = [pc EXCEPT ![r] = "infer"]
            /\ UNCHANGED resp
    /\ UNCHANGED <<model, body, predictCalls, inferOutcome, arrivedAfterFailure>>
    /\ UNCHANGED <<SEQ_LEN, HORIZONS, call>>

\* variant: the except clause of lines 110-111 also discarding the model
\* (global model; model = None)
Infer_drops_model(r) ==
    /\ pc[r] = "infer"
    /\ LET time_details == get_sample_date_range(FIXED_SAMPLE_INDEX, START_DATE)
       IN  IF model = ModelNone
           THEN /\ Return(r, InferenceFailedResponse("AttributeError"))
                /\ inferOutcome' = [inferOutcome EXCEPT ![r] = "raised"]
                /\ UNCHANGED <<predictCalls, model>>
           ELSE /\ predictCalls' = [predictCalls EXCEPT ![r] = @ + 1]
                /\ \E outcome \in {"returned", "raised"} :
                       /\ inferOutcome' = [inferOutcome EXCEPT ![r] = outcome]
                       /\ IF outcome = "raised"
                          THEN /\ Return(r, InferenceFailedResponse("Exception"))
                               /\ model' = ModelNone
                          ELSE /\ Return(r, SuccessResponse(time_details))
                               /\ UNCHANGED model
    /\ UNCHANGED <<body, arrivedAfterFailure>>
    /\ UNCHANGED <<SEQ_LEN, HORIZONS, call>>

\* variant: the sample index advanced by the number of requests already answered
\* instead of the constant FIXED_SAMPLE_INDEX
Infer_counting_index(r) ==
    /\ pc[r] = "infer"
    /\ LET answered == Cardinality({q \in Requests : pc[q] = "done"})
           time_details == get_sample_date_range(FIXED_SAMPLE_INDEX + answered, START_DATE)
       IN  IF model = ModelNone
           THEN /\ Return(r, InferenceFailedResponse("AttributeError"))
                /\ inferOutcome' = [inferOutcome EXCEPT ![r] = "raised"]
                /\ UNCHANGED predictCalls
           ELSE /\ predictCalls' = [predictCalls EXCEPT ![r] = @ + 1]
                /\ \E outcome \in {"returned", "raised"} :
                       /\ inferOutcome' = [inferOutcome EXCEPT ![r] = outcome]
                       /\ IF outcome = "raised"
                          THEN Return(r, InferenceFailedResponse("Exception"))
                          ELSE Return(r, SuccessResponse(time_details))
    /\ UNCHANGED <<model, body, arrivedAfterFailure>>
    /\ UNCHANGED <<SEQ_LEN, HORIZONS, call>>

\* variant: model.predict called a second time when the first call raises
Infer_retrying(r) ==
    /\ pc[r] = "infer"
    /\ LET time_details == get_sample_date_range(FIXED_SAMPLE_INDEX, START_DATE)
       IN  IF model = ModelNone
           THEN /\ Return(r, InferenceFailedResponse("AttributeError"))
                /\ inferOutcome' = [inferOutcome EXCEPT ![r] = "raised"]
                /\ UNCHANGED predictCalls
           ELSE \E outcome \in {"returned", "raised"} :
                    /\ inferOutcome' = [inferOutcome EXCEPT ![r] = outcome]
                    /\ IF outcome = "raised"
                       THEN /\ predictCalls' = [predictCalls EXCEPT ![r] = @ + 2]
                            /\ Return(r, InferenceFailedResponse("Exception"))
                       ELSE /\ predictCalls' = [predictCalls EXCEPT ![r] = @ + 1]
                            /\ Return(r, SuccessResponse(time_details))
    /\ UNCHANGED <<model, body, arrivedAfterFailure>>
    /\ UNCHANGED <<SEQ_LEN, HORIZONS, call>>

\* lines 101-117: the time details, the random input tensor, then the try
\* block around model.predict; the global `model` is read again at line 107,
\* and None has no attribute predict.
Infer(r) ==
    /\ pc[r] = "infer"
    /\ LET time_details == get_sample_date_range(FIXED_SAMPLE_INDEX, START_DATE)
       IN  IF model = ModelNone
           THEN /\ Return(r, InferenceFailedResponse("AttributeError"))
                /\ inferOutcome' = [inferOutcome EXCEPT ![r] = "raised"]
                /\ UNCHANGED predictCalls
           ELSE /\ predictCalls' = [predictCalls EXCEPT ![r] = @ + 1]
                /\ \E outcome \in {"returned", "raised"} :
                       /\ inferOutcome' = [inferOutcome EXCEPT ![r] = outcome]
                       /\ IF outcome = "raised"
                          THEN Return(r, InferenceFailedResponse("Exception"))
                          ELSE Return(r, SuccessResponse(time_details))
    /\ UNCHANGED <<model, body, arrivedAfterFailure>>
    /\ UNCHANGED <<SEQ_LEN, HORIZONS, call>>

ServerInit ==
    /\ model \in {ModelLoaded, ModelNone}
    /\ pc = [r \in Requests |-> "idle"]
    /\ body = [r \in Requests |-> NoBody]
    /\ resp = [r \in Requests |-> NoResponse]
    /\ predictCalls = [r \in Requests |-> 0]
    /\ inferOutcome = [r \in Requests |-> "none"]
    /\ arrivedAfterFailure = [r \in Requests |-> FALSE]

Init ==
    /\ SEQ_LEN = 6
    /\ HORIZONS = 3
    /\ call = NoCall
    /\ ServerInit

Next ==
    \E r \in Requests : CheckModel(r) \/ ParseBounds(r) \/ Infer(r)

Spec == Init /\ [][Next]_vars

\* get_sample_date_range on its own, over configurations and inputs
InitDate ==
    /\ SEQ_LEN \in 1..MaxSeqLen
    /\ HORIZONS \in 1..MaxHorizons
    /\ call = NoCall
    /\ ServerInit

NextDate == CallDateRange

SpecDate == InitDate /\ [][NextDate]_vars

(***************************************************************************)
(* Measures used by the properties                                         *)
(***************************************************************************)
RECURSIVE DaysBeforeMonth(_, _)
DaysBeforeMonth(y, m) ==
    IF m = 1 THEN 0 ELSE DaysBeforeMonth(y, m - 1) + DaysInMonth(y, m - 1)

\* date.toordinal(): days since 0001-01-01, counted in closed form
ToOrdinal(d) ==
    LET y == d.year - 1
    IN  y * 365 + (y \div 4) - (y \div 100) + (y \div 400)
        + DaysBeforeMonth(d.year, d.month) + d.day

Epoch == [year |-> 2000, month |-> 1, day |-> 1, hour |-> 0, minute |-> 0, second |-> 0]

\* seconds since 2000-01-01 00:00:00
Timestamp(d) ==
    ((ToOrdinal(d) - ToOrdinal(Epoch)) * 24 + d.hour) * 3600 + d.minute * 60 + d.second

Done(r) == pc[r] = "done"

BodyParses(r) == ParseError(body[r]) = "ok"

ErrorBody(r) == DOMAIN resp[r].body = {"error"}

\* latMin is missing or is not a number (the fields of a non-object are all missing)
LatMinMalformed(b) == b.json # "object" \/ b.latMin # "number"

AnyBoundMalformed(b) ==
    \/ b.json # "object"
    \/ b.latMin # "number" \/ b.lonMin # "number"
    \/ b.latMax # "number" \/ b.lonMax # "number"

IsReferenceCall ==
    /\ call.called
    /\ SEQ_LEN = 6 /\ HORIZONS = 3
    /\ call.sample_index = 17
    /\ call.start_date = START_DATE

(***************************************************************************)
(* Properties                                                              *)
(***************************************************************************)

\* C1 as stated: with base 2015-01-01 00:00:00, SEQ_LEN = 6 and HORIZONS = 3,
\* get_sample_date_range(17, base) returns inputStart 17:00:00, inputEnd
\* 22:00:00, predStart 23:00:00, predEnd 01:00:00, date 2015-01-02 and
\* full_start_date 2015-01-02 17:00:00.
C1_ReferenceWindow_AsStated ==
    IsReferenceCall =>
        call.result = [ inputStart      |-> "17:00:00",
                        inputEnd        |-> "22:00:00",
                        predStart       |-> "23:00:00",
                        predEnd         |-> "01:00:00",
                        date            |-> "2015-01-02",
                        full_start_date |-> "2015-01-02 17:00:00" ]

\* C1 amended: the same call returns inputStart 17:00:00, inputEnd 22:00:00,
\* predStart 23:00:00, predEnd 01:00:00 (which falls on 2015-01-02), and the
\* labels of the input start, date 2015-01-01 and full_start_date
\* 2015-01-01 17:00:00.
C1_ReferenceWindow ==
    IsReferenceCall =>
        /\ call.result = [ inputStart      |-> "17:00:00",
                           inputEnd        |-> "22:00:00",
                           predStart       |-> "23:00:00",
                           predEnd         |-> "01:00:00",
                           date            |-> "2015-01-01",
                           full_start_date |-> "2015-01-01 17:00:00" ]
        /\ StrfYmd(call.pred_end_time) = "2015-01-02"

C1_Witness == IsReferenceCall

\* C2: for every sample_index >= 0, L >= 1 and H >= 1 the offsets satisfy
\* input_end - input_start = L - 1, pred_start = input_end + 1 and
\* pred_end - pred_start = H - 1; each timestamp lies its offset in hours
\* after the base date, so input_start <= input_end < pred_start <= pred_end
\* and the prediction window covers exactly H hourly steps.
C2_WindowsOrdered ==
    call.called =>
        /\ call.input_end_hour_offset - call.input_start_hour_offset = SEQ_LEN - 1
        /\ call.pred_start_hour_offset = call.input_end_hour_offset + 1
        /\ call.pred_end_hour_offset - call.pred_start_hour_offset = HORIZONS - 1
        /\ Timestamp(call.input_start_time) - Timestamp(call.start_date)
               = 3600 * call.input_start_hour_offset
        /\ Timestamp(call.input_end_time) - Timestamp(call.start_date)
               = 3600 * call.input_end_hour_offset
        /\ Timestamp(call.pred_start_time) - Timestamp(call.start_date)
               = 3600 * call.pred_start_hour_offset
        /\ Timestamp(call.pred_end_time) - Timestamp(call.start_date)
               = 3600 * call.pred_end_hour_offset
        /\ Timestamp(call.input_start_time) <= Timestamp(call.input_end_time)
        /\ Timestamp(call.input_end_time) < Timestamp(call.pred_start_time)
        /\ Timestamp(call.pred_start_time) <= Timestamp(call.pred_end_time)
        /\ Timestamp(call.pred_end_time) - Timestamp(call.pred_start_time)
               = 3600 * (HORIZONS - 1)

\* a call whose input window ends in one year and whose prediction window
\* starts in the next
C2_Witness ==
    /\ call.called
    /\ SEQ_LEN > 1 /\ HORIZONS > 1
    /\ call.sample_index > 0
    /\ call.input_end_time.year < call.pred_start_time.year

\* C3: when the model failed to load, every request, whatever its body, gets
\* the one fixed 500 response, and the handler reaches neither the parsing of
\* the bounds nor the inference call.
C3_UnavailableForAll ==
    model = ModelNone =>
        \A r \in Requests :
            /\ pc[r] \in {"idle", "done"}
            /\ predictCalls[r] = 0
            /\ inferOutcome[r] = "none"
            /\ Done(r) => resp[r] = UnavailableResponse

C3_Witness ==
    /\ model = ModelNone
    /\ \E r1, r2 \in Requests :
           /\ Done(r1) /\ BodyParses(r1)
           /\ Done(r2) /\ body[r2].json = "absent"

\* C4: with the model loaded, a request whose latMin is absent or not
\* parseable as a float is answered 400 with an error body, and model.predict
\* is never invoked for it.
C4_BadLatMinRejected ==
    model = ModelLoaded =>
        \A r \in Requests :
            (pc[r] # "idle" /\ LatMinMalformed(body[r])) =>
                /\ pc[r] # "infer"
                /\ predictCalls[r] = 0
                /\ inferOutcome[r] = "none"
                /\ Done(r) => (resp[r].status = 400 /\ ErrorBody(r))

C4_Witness ==
    /\ model = ModelLoaded
    /\ \E r1, r2 \in Requests :
           /\ Done(r1) /\ body[r1].json = "object" /\ body[r1].latMin = "absent"
           /\ body[r1].lonMin = "number"
           /\ Done(r2) /\ body[r2].json = "object" /\ body[r2].latMin = "non_numeric"

\* C5: with the model loaded, a request is rejected with status 400 whenever
\* any one of latMin, lonMin, latMax, lonMax is missing or non-numeric; no
\* such request reaches the success outcome.
C5_AnyBadBoundRejected ==
    model = ModelLoaded =>
        \A r \in Requests :
            (Done(r) /\ AnyBoundMalformed(body[r])) => resp[r].status = 400

\* C6: a request whose model.predict raises is answered 500 with an error
\* body, the model handle stays loaded, and a request arriving afterwards
\* whose bounds parse and whose inference does not raise is answered 200.
C6_AvailableAfterInferenceFailure ==
    /\ \A r \in Requests :
           inferOutcome[r] = "raised" =>
               /\ Done(r) /\ resp[r].status = 500 /\ ErrorBody(r)
               /\ model = ModelLoaded
    /\ \A r \in Requests :
           (arrivedAfterFailure[r] /\ Done(r) /\ BodyParses(r)
                /\ inferOutcome[r] # "raised") => resp[r].status = 200

C6_Witness ==
    \E q, r \in Requests :
        /\ inferOutcome[q] = "raised" /\ resp[q].status = 500
        /\ arrivedAfterFailure[r] /\ Done(r) /\ resp[r].status = 200

C9_OutcomeTable ==
    \A r \in Requests :
        /\ Done(r) <=> resp[r] # NoResponse
        /\ Done(r) =>
               /\ resp[r].status \in {200, 400, 500}
               /\ model = ModelNone => resp[r].status = 500
               /\ (model = ModelLoaded /\ ~BodyParses(r)) => resp[r].status = 400
               /\ (model = ModelLoaded /\ BodyParses(r)) =>
                      /\ inferOutcome[r] \in {"raised", "returned"}
                      /\ inferOutcome[r] = "raised" => resp[r].status = 500
                      /\ inferOutcome[r] = "returned" => resp[r].status = 200
               /\ resp[r].status = 200 <=>
                      (model = ModelLoaded /\ BodyParses(r) /\ inferOutcome[r] = "returned")
               /\ resp[r].status = 200 =>
                      DOMAIN resp[r].body = {"prediction_results", "time_details"}
               /\ resp[r].status # 200 => ErrorBody(r)

C9_Witness ==
    \E r1, r2 \in Requests :
        /\ Done(r1) /\ resp[r1].status = 200
        /\ Done(r2) /\ resp[r2].status = 400

\* C10: model.predict is invoked at most once per request: exactly once when
\* the request ends in success or in the inference-failure error, never when
\* it ends in the unavailable or the invalid-input error, and only after the
\* bounds have been parsed.
C10_PredictAtMostOnce ==
    \A r \in Requests :
        /\ predictCalls[r] <= 1
        /\ pc[r] \in {"idle", "parse", "infer"} => predictCalls[r] = 0
        /\ predictCalls[r] > 0 => BodyParses(r)
        /\ Done(r) =>
               /\ resp[r].status = 200 => predictCalls[r] = 1
               /\ (resp[r].status = 500 /\ resp[r] # UnavailableResponse)
                      => predictCalls[r] = 1
               /\ resp[r] = UnavailableResponse => predictCalls[r] = 0
               /\ resp[r].status = 400 => predictCalls[r] = 0

C10_Witness ==
    \E r1, r2 \in Requests :
        /\ Done(r1) /\ inferOutcome[r1] = "raised" /\ predictCalls[r1] = 1
        /\ Done(r2) /\ resp[r2].status = 400 /\ predictCalls[r2] = 0

====
